---- MODULE Spec2Model ----
(***************************************************************************)
(* The multi-file editing session of the playground: the files reducer     *)
(* (filesReducer), the handlers of Playground that call the analysis       *)
(* engine (Workspace) around it, the startup restore loop and the          *)
(* asynchronous remove path of Chrome.                                     *)
(*                                                                         *)
(* Spec is the session as the application runs it: startup, then the       *)
(* handlers, with engine calls that may raise and removes suspended at     *)
(* their await. StoreSpec drives filesReducer on its own, with every       *)
(* action a caller can dispatch for the ids in index, over larger          *)
(* sessions; StaleSpec adds actions for ids that are not in index.         *)
(* CheckSpec is the session with the analysis pipeline of Chrome           *)
(* (useCheckResult): selection, edits and the secondary tool, each         *)
(* followed by its render.                                                 *)
(***************************************************************************)
EXTENDS Integers, Sequences, FiniteSets, TLC

VARIABLES
    files,      \* FilesState held by useReducer(filesReducer, ...)
    workspace,  \* the engine: open handles with path and content, options
    error,      \* the error sink of Playground (useState error / setError)
    phase,      \* "loading" | "ready" | "crashed"
    monaco,     \* import("monaco-editor"): "unloaded" | "loading" | "loaded"
    pending,    \* handleRemoved calls of Chrome suspended at their await
    last,       \* the handler that ran last, its arguments and outcome (the
                \* calls it made in order, for the handlers of the user)
    secondaryTool,    \* useState secondaryTool of Chrome
    deferredContent,  \* useDeferredValue of the content of the selected file
    checkResult,      \* the value useCheckResult memoizes, with the engine
                      \* calls its computation made and where it raised
    memoRan,          \* whether the last render ran the callback of that memo
    deferredFiles,    \* useDeferredValue(files) of usePersistLocally
    persisted         \* what persistLocal wrote last

vars == <<files, workspace, error, phase, monaco, pending, last,
          secondaryTool, deferredContent, checkResult, memoRan,
          deferredFiles, persisted>>

\* The variables of the analysis pipeline of Chrome.
pipeline == <<secondaryTool, deferredContent, checkResult, memoRan>>

\* The variables of usePersistLocally.
autosave == <<deferredFiles, persisted>>

----------------------------------------------------------------------------
(* Bounds of the model *)

MaxId == 2         \* ids allocated in one session (adds, startup included)
MaxRevision == 2   \* content changes stop once revision reaches this
MaxStoreId == 3    \* ids allocated when the reducer is driven on its own
MaxStoreRevision == 4  \* its adds, changes and removes stop at this revision
MaxPending == 1    \* handleRemoved calls suspended at their await at once
MaxCheckRevision == 5  \* content changes of a session with its pipeline stop here
MaxCheckId == 2    \* ids allocated in a session with its pipeline whose
                   \* files are added, renamed and removed
MaxMemoRevision == 3   \* content changes of such a session stop here
MaxPersistId == 2  \* ids allocated in a session with its autosave
MaxPersistRevision == 3    \* content changes of such a session stop here
MaxOptionsId == 2  \* ids allocated in a session whose settings are edited
MaxOptionsRevision == 3    \* content changes of such a session stop here

----------------------------------------------------------------------------
(* Values *)

null == -1         \* JavaScript null: no selection, no handle

SETTINGS_FILE_NAME == "knot.json"

DEFAULT_SETTINGS == "{environment,rules}"

Names == {"main.py", "lib.py", SETTINGS_FILE_NAME}

\* Texts typed into the editor: Python source (no JSON) and valid settings.
Contents == {"import os", DEFAULT_SETTINGS}


\* Messages are sequences of text pieces; the error sink holds <<>> for null.
NoError == <<>>
OptionsError == "Failed to update 'knot.json' options: "
FileError == "Failed to update file: "
ErrorPrefix == "Error: "

----------------------------------------------------------------------------
(* JavaScript objects used as maps *)

\* { ...obj, [key]: value }
Put(obj, key, value) ==
    [k \in (DOMAIN obj) \cup {key} |-> IF k = key THEN value ELSE obj[k]]

\* const { [key]: _removed, ...rest } = obj
Rest(obj, key) == [k \in (DOMAIN obj) \ {key} |-> obj[k]]

EmptyObject == [k \in {} |-> null]

\* array.findIndex: 0-based position of the first match, -1 when none
FindIndex(index, id) ==
    IF \E i \in 1..Len(index) : index[i].id = id
    THEN (CHOOSE i \in 1..Len(index) :
            /\ index[i].id = id
            /\ \A j \in 1..(i - 1) : index[j].id # id) - 1
    ELSE -1

\* array.find by name: the first record with that name
FindByName(index, name) ==
    IF \E i \in 1..Len(index) : index[i].name = name
    THEN index[CHOOSE i \in 1..Len(index) :
            /\ index[i].name = name
            /\ \A j \in 1..(i - 1) : index[j].name # name].id
    ELSE null

\* array.filter((file) => file.id !== id)
RECURSIVE FilterOut(_, _)
FilterOut(index, id) ==
    IF index = <<>> THEN <<>>
    ELSE IF Head(index).id = id THEN FilterOut(Tail(index), id)
         ELSE <<Head(index)>> \o FilterOut(Tail(index), id)

Ids(index) == {index[i].id : i \in 1..Len(index)}

----------------------------------------------------------------------------
(* filesReducer *)

InitialFiles ==
    [index |-> <<>>, contents |-> EmptyObject, handles |-> EmptyObject,
     nextId |-> 0, revision |-> 0, selected |-> null]

\* ReduceAdd taking the id from the length of index instead of nextId.
ReduceAddIdFromLength(state, handle, name, content) ==
    LET id == Len(state.index) IN
    [state EXCEPT
        !.selected = id,
        !.index = Append(state.index, [id |-> id, name |-> name]),
        !.handles = Put(state.handles, id, handle),
        !.contents = Put(state.contents, id, content),
        !.nextId = state.nextId + 1,
        !.revision = state.revision + 1]

\* ReduceAdd leaving the selection where it was.
ReduceAddKeepsSelection(state, handle, name, content) ==
    LET id == state.nextId IN
    [state EXCEPT
        !.index = Append(state.index, [id |-> id, name |-> name]),
        !.handles = Put(state.handles, id, handle),
        !.contents = Put(state.contents, id, content),
        !.nextId = state.nextId + 1,
        !.revision = state.revision + 1]

ReduceAdd(state, handle, name, content) ==
    LET id == state.nextId IN
    [state EXCEPT
        !.selected = id,
        !.index = Append(state.index, [id |-> id, name |-> name]),
        !.handles = Put(state.handles, id, handle),
        !.contents = Put(state.contents, id, content),
        !.nextId = state.nextId + 1,
        !.revision = state.revision + 1]

\* ReduceChange moving the selection to the changed file as well.
ReduceChangeSelects(state, id, content) ==
    [state EXCEPT
        !.selected = id,
        !.contents = Put(state.contents, id, content),
        !.revision = state.revision + 1]

ReduceChange(state, id, content) ==
    [state EXCEPT
        !.contents = Put(state.contents, id, content),
        !.revision = state.revision + 1]

\* The 0-based position the remove case reads the new selection from.
RemoveSelectedPosition(state, id) ==
    LET index == FindIndex(state.index, id) IN
    IF index > 0 THEN index - 1 ELSE index + 1

\* state.index[position] is undefined there, so reading .id raises TypeError.
RemoveThrows(state, id) ==
    /\ state.selected = id
    /\ RemoveSelectedPosition(state, id) + 1 \notin 1..Len(state.index)

\* ReduceRemove forgetting to drop the handle of the removed file.
ReduceRemoveKeepsHandle(state, id) ==
    LET selected ==
            IF state.selected = id
            THEN state.index[RemoveSelectedPosition(state, id) + 1].id
            ELSE state.selected
    IN  [state EXCEPT
            !.selected = selected,
            !.index = FilterOut(state.index, id),
            !.contents = Rest(state.contents, id),
            !.revision = state.revision + 1]

\* ReduceRemove leaving the selection on the removed file.
ReduceRemoveKeepsSelection(state, id) ==
    [state EXCEPT
        !.index = FilterOut(state.index, id),
        !.contents = Rest(state.contents, id),
        !.handles = Rest(state.handles, id),
        !.revision = state.revision + 1]

\* ReduceRemove moving the selection to the first record that is left.
ReduceRemoveSelectsFirst(state, id) ==
    LET left == FilterOut(state.index, id) IN
    [state EXCEPT
        !.selected = IF left = <<>> THEN null ELSE left[1].id,
        !.index = left,
        !.contents = Rest(state.contents, id),
        !.handles = Rest(state.handles, id),
        !.revision = state.revision + 1]

ReduceRemove(state, id) ==
    LET selected ==
            IF state.selected = id
            THEN state.index[RemoveSelectedPosition(state, id) + 1].id
            ELSE state.selected
    IN  [state EXCEPT
            !.selected = selected,
            !.index = FilterOut(state.index, id),
            !.contents = Rest(state.contents, id),
            !.handles = Rest(state.handles, id),
            !.revision = state.revision + 1]

\* newIndex.splice(index, 1, record): a start of -1 counts from the end, so
\* an id that is not in index replaces the last record (inserts when empty).
Splice(index, position, record) ==
    LET n == Len(index)
        start == IF position < 0 THEN (IF n + position < 0 THEN 0 ELSE n + position)
                 ELSE position
    IN  SubSeq(index, 1, start) \o <<record>> \o SubSeq(index, start + 2, n)

\* ReduceRename moving the renamed record to the end of index.
ReduceRenameMovesLast(state, id, to, newHandle) ==
    [state EXCEPT
        !.index = Append(FilterOut(state.index, id), [id |-> id, name |-> to]),
        !.handles = Put(state.handles, id, newHandle)]

ReduceRename(state, id, to, newHandle) ==
    LET index == FindIndex(state.index, id) IN
    [state EXCEPT
        !.index = Splice(state.index, index, [id |-> id, name |-> to]),
        !.handles = Put(state.handles, id, newHandle)]

\* ReduceSelectFile counting the selection as an edit.
ReduceSelectFileBumpsRevision(state, id) ==
    [state EXCEPT !.selected = id, !.revision = state.revision + 1]

ReduceSelectFile(state, id) == [state EXCEPT !.selected = id]

\* ReduceSelectFileByName taking the last record of that name, not the first.
ReduceSelectFileByNameLast(state, name) ==
    [state EXCEPT !.selected =
        IF \E i \in 1..Len(state.index) : state.index[i].name = name
        THEN state.index[CHOOSE i \in 1..Len(state.index) :
                /\ state.index[i].name = name
                /\ \A j \in (i + 1)..Len(state.index) :
                        state.index[j].name # name].id
        ELSE null]

ReduceSelectFileByName(state, name) ==
    [state EXCEPT !.selected = FindByName(state.index, name)]

\* Whether the reducer raises on this action instead of returning a state.
ReducerThrows(state, action) ==
    action.type = "remove" /\ RemoveThrows(state, action.id)

filesReducer(state, action) ==
    CASE action.type = "add" ->
            ReduceAdd(state, action.handle, action.name, action.content)
      [] action.type = "change" -> ReduceChange(state, action.id, action.content)
      [] action.type = "remove" -> ReduceRemove(state, action.id)
      [] action.type = "rename" ->
            ReduceRename(state, action.id, action.to, action.newHandle)
      [] action.type = "selectFile" -> ReduceSelectFile(state, action.id)
      [] action.type = "selectFileByName" ->
            ReduceSelectFileByName(state, action.name)

\* The state after dispatch(action) has been rendered, and whether the render
\* raised (the reducer runs while rendering; nothing catches its exception).
Dispatch(state, action) ==
    IF ReducerThrows(state, action)
    THEN [files |-> state, crashed |-> TRUE]
    ELSE [files |-> filesReducer(state, action), crashed |-> FALSE]

----------------------------------------------------------------------------
(* The engine (Workspace of red_knot_wasm), at its interface *)

\* JSON.parse: the settings object of a text, as a set of keys; raises
\* SyntaxError on a text that is no JSON.
JsonParses(content) == content \in {"{}", DEFAULT_SETTINGS, "{rules:1}"}

JsonParse(content) ==
    CASE content = "{}" -> {}
      [] content = DEFAULT_SETTINGS -> {"environment", "rules"}
      [] content = "{rules:1}" -> {"rules:1"}

ValidSettings(settings) == settings \subseteq {"environment", "rules"}

SyntaxErrorMessage == <<"Unexpected token">>
EngineErrorMessage == <<ErrorPrefix, "engine">>

\* new Workspace("/", {})
NewWorkspace == [open |-> EmptyObject, options |-> {}]

OpenHandles(ws) == DOMAIN ws.open

\* Handles are opaque objects; openFile returns one that is no object held
\* anywhere yet. It is named by the least number that names no handle in use
\* (open in the engine, or still referenced by the session or a closure).
Handles(state) == {state.handles[id] : id \in DOMAIN state.handles} \ {null}

NewHandle(used) == CHOOSE h \in 1..(Cardinality(used) + 1) :
    /\ h \notin used
    /\ \A g \in 1..(h - 1) : g \in used

\* workspace.openFile(name, content), returning `handle`; the engine keeps
\* the path and the content of each open handle.
WorkspaceOpenFile(ws, handle, name, content) ==
    [ws EXCEPT !.open = Put(ws.open, handle,
                            [path |-> name, content |-> content])]

\* workspace.closeFile(handle)
WorkspaceCloseFile(ws, handle) == [ws EXCEPT !.open = Rest(ws.open, handle)]

\* workspace.updateFile(handle, content) raises on a handle that is not open
WorkspaceUpdateFileThrows(ws, handle) == handle \notin OpenHandles(ws)

WorkspaceUpdateFile(ws, handle, content) ==
    [ws EXCEPT !.open = Put(ws.open, handle,
                            [path |-> ws.open[handle].path,
                             content |-> content])]

\* workspace.updateOptions(settings) raises on invalid settings
WorkspaceUpdateOptionsThrows(settings) == ~ValidSettings(settings)

WorkspaceUpdateOptions(ws, settings) == [ws EXCEPT !.options = settings]

----------------------------------------------------------------------------
(* formatError, updateOptions, updateFile *)

formatError(message) ==
    IF message # <<>> /\ Head(message) = ErrorPrefix THEN Tail(message)
    ELSE message

\* updateOptions(workspace, content, setError); content null is passed as
\* the text null. The result: the engine, the value handed to setError, the
\* engine calls made and whether one raised.
NullContent == "null"

\* updateOptions resetting the options of the engine when the text is no JSON.
updateOptionsResets(ws, content) ==
    LET text == IF content = NullContent THEN DEFAULT_SETTINGS ELSE content IN
    IF ~JsonParses(text)
    THEN [ws |-> WorkspaceUpdateOptions(ws, {}),
          error |-> <<OptionsError>> \o formatError(SyntaxErrorMessage),
          calls |-> <<>>, threw |-> FALSE]
    ELSE IF WorkspaceUpdateOptionsThrows(JsonParse(text))
    THEN [ws |-> ws, error |-> <<OptionsError>> \o formatError(EngineErrorMessage),
          calls |-> <<"updateOptions">>, threw |-> TRUE]
    ELSE [ws |-> WorkspaceUpdateOptions(ws, JsonParse(text)), error |-> NoError,
          calls |-> <<"updateOptions">>, threw |-> FALSE]

updateOptions(ws, content) ==
    LET text == IF content = NullContent THEN DEFAULT_SETTINGS ELSE content IN
    IF ~JsonParses(text)
    THEN [ws |-> ws, error |-> <<OptionsError>> \o formatError(SyntaxErrorMessage),
          calls |-> <<>>, threw |-> FALSE]
    ELSE IF WorkspaceUpdateOptionsThrows(JsonParse(text))
    THEN [ws |-> ws, error |-> <<OptionsError>> \o formatError(EngineErrorMessage),
          calls |-> <<"updateOptions">>, threw |-> TRUE]
    ELSE [ws |-> WorkspaceUpdateOptions(ws, JsonParse(text)), error |-> NoError,
          calls |-> <<"updateOptions">>, threw |-> FALSE]

updateFile(ws, handle, content) ==
    IF WorkspaceUpdateFileThrows(ws, handle)
    THEN [ws |-> ws, error |-> <<FileError>> \o formatError(EngineErrorMessage),
          calls |-> <<"updateFile">>, threw |-> TRUE]
    ELSE [ws |-> WorkspaceUpdateFile(ws, handle, content), error |-> NoError,
          calls |-> <<"updateFile">>, threw |-> FALSE]

----------------------------------------------------------------------------
(* useCheckResult of Chrome: the analysis pipeline *)

\* SecondaryTool | null
NoTool == "none"
SecondaryTools == {"AST", "Tokens", "Run"}

\* The tool switched on and off where files are added, renamed and removed.
MemoTools == {"AST"}

\* SecondaryPanelResult null
NoSecondary == [status |-> "none"]

\* workspace.checkFile(handle): the diagnostics are opaque values; there is
\* one here, naming the path and the content the engine computed it from.
WorkspaceCheckFile(ws, handle) ==
    <<[path |-> ws.open[handle].path, content |-> ws.open[handle].content]>>

\* workspace.parsed(handle) and workspace.tokens(handle)
WorkspaceParsed(ws, handle) == <<"AST", ws.open[handle].content>>
WorkspaceTokens(ws, handle) == <<"Tokens", ws.open[handle].content>>

\* A query of the engine raises on a handle that is not open, and when the
\* engine fails (fault).
WorkspaceQueryThrows(ws, handle, fault) ==
    handle \notin OpenHandles(ws) \/ fault

\* isPythonFile(handle) of Files: by the extension of the path the handle was
\* opened under, which is the name of the record that holds the handle.
PythonExtensions == {"py", "pyi", "pyw"}

Extension(name) ==
    CASE name \in {"main.py", "lib.py"} -> "py"
      [] name = SETTINGS_FILE_NAME -> "json"
      [] OTHER -> "txt"

isPythonFile(state, id) ==
    \E i \in 1..Len(state.index) :
        /\ state.index[i].id = id
        /\ Extension(state.index[i].name) \in PythonExtensions

\* files.handles[files.selected]; undefined counts as null
currentHandle(state) ==
    IF state.selected \in DOMAIN state.handles
    THEN state.handles[state.selected]
    ELSE null

\* The value of a computation that called nothing.
EmptyResult ==
    [diagnostics |-> <<>>, error |-> NoError, secondary |-> NoSecondary,
     calls |-> <<>>, threw |-> "none"]

\* Analyzable without the tests of the handle.
AnalyzableWhenSelected(state, deferred) ==
    /\ state.selected # null
    /\ deferred # NullContent

\* Whether the memo gets as far as workspace.checkFile.
Analyzable(state, deferred) ==
    /\ state.selected # null
    /\ deferred # NullContent
    /\ currentHandle(state) # null
    /\ isPythonFile(state, state.selected)

\* CheckFailure leaving a secondary result.
CheckFailureKeepsSecondary(calls) ==
    [diagnostics |-> <<>>, error |-> formatError(EngineErrorMessage),
     secondary |-> [status |-> "ok", content |-> <<>>], calls |-> calls,
     threw |-> "check"]

\* The outer catch: workspace.checkFile raised.
CheckFailure(calls) ==
    [diagnostics |-> <<>>, error |-> formatError(EngineErrorMessage),
     secondary |-> NoSecondary, calls |-> calls, threw |-> "check"]

\* SecondaryFailure dropping the diagnostics and reporting a check error.
SecondaryFailureBlanksDiagnostics(diagnostics, calls) ==
    [diagnostics |-> <<>>, error |-> formatError(EngineErrorMessage),
     secondary |-> [status |-> "error", error |-> EngineErrorMessage],
     calls |-> calls, threw |-> "secondary"]

\* The inner catch: the query of the secondary tool raised.
SecondaryFailure(diagnostics, calls) ==
    [diagnostics |-> diagnostics, error |-> NoError,
     secondary |-> [status |-> "error", error |-> EngineErrorMessage],
     calls |-> calls, threw |-> "secondary"]

\* The callback of useMemo in useCheckResult.
useCheckResult(state, ws, tool, deferred, checkFault, secondaryFault) ==
    LET handle == currentHandle(state)
        ok(secondary, calls) ==
            [diagnostics |-> WorkspaceCheckFile(ws, handle), error |-> NoError,
             secondary |-> secondary, calls |-> <<"checkFile">> \o calls,
             threw |-> "none"]
    IN
    IF ~Analyzable(state, deferred) THEN EmptyResult
    ELSE IF WorkspaceQueryThrows(ws, handle, checkFault)
    THEN CheckFailure(<<"checkFile">>)
    ELSE IF tool = "AST"
    THEN IF WorkspaceQueryThrows(ws, handle, secondaryFault)
         THEN SecondaryFailure(WorkspaceCheckFile(ws, handle),
                               <<"checkFile", "parsed">>)
         ELSE ok([status |-> "ok", content |-> WorkspaceParsed(ws, handle)],
                 <<"parsed">>)
    ELSE IF tool = "Tokens"
    THEN IF WorkspaceQueryThrows(ws, handle, secondaryFault)
         THEN SecondaryFailure(WorkspaceCheckFile(ws, handle),
                               <<"checkFile", "tokens">>)
         ELSE ok([status |-> "ok", content |-> WorkspaceTokens(ws, handle)],
                 <<"tokens">>)
    ELSE IF tool = "Run"
    THEN ok([status |-> "ok", content |-> <<>>], <<>>)
    ELSE ok(NoSecondary, <<>>)

----------------------------------------------------------------------------
(* serializeFiles: the snapshot persist and persistLocal store. A snapshot  *)
(* is the entries of its files object in insertion order, and current.      *)

\* null as serializeFiles returns it: no snapshot has an empty files object.
NoSnapshot == [files |-> <<>>, current |-> "null"]

\* serializedFiles[name] = content: a name that is a key already keeps its
\* place and takes the content, a new name goes last.
Assign(entries, name, content) ==
    IF \E i \in DOMAIN entries : entries[i][1] = name
    THEN [i \in DOMAIN entries |->
            IF entries[i][1] = name THEN <<name, content>> ELSE entries[i]]
    ELSE Append(entries, <<name, content>>)

\* The loop of serializeFiles over files.index, carrying serializedFiles and
\* selected.
RECURSIVE SerializeLoop(_, _, _)
SerializeLoop(state, position, acc) ==
    IF position > Len(state.index) THEN acc
    ELSE
        LET id == state.index[position].id
            name == state.index[position].name
        IN  SerializeLoop(state, position + 1,
                [files |-> Assign(acc.files, name, state.contents[id]),
                 selected |-> IF state.selected = id THEN name
                              ELSE acc.selected])

serializeFiles(state) ==
    LET looped == SerializeLoop(state, 1, [files |-> <<>>, selected |-> "null"])
    IN  IF looped.selected = "null" THEN NoSnapshot
        ELSE [files |-> looped.files, current |-> looped.selected]

----------------------------------------------------------------------------
(* Startup: the callback of startPlayground().then in Playground *)

\* A snapshot: the entries of files in insertion order, and current.
DefaultSnapshot ==
    [files |-> << <<"main.py", "import os">>,
                  <<SETTINGS_FILE_NAME, DEFAULT_SETTINGS>> >>,
     current |-> "main.py"]

\* Snapshots restore() can return: sessions serializeFiles wrote earlier (the
\* settings file holding text that is no JSON in some), and one whose current
\* names no file.
RestoredSnapshots ==
    { [files |-> << <<"main.py", "import os">> >>, current |-> "main.py"],
      [files |-> << <<"main.py", "import os">>, <<"lib.py", "">> >>,
       current |-> "lib.py"],
      [files |-> << <<SETTINGS_FILE_NAME, "import os">>,
                    <<"lib.py", "import os">> >>,
       current |-> SETTINGS_FILE_NAME],
      [files |-> << <<"lib.py", "import os">> >>, current |-> "main.py"] }

Snapshots == {DefaultSnapshot} \cup RestoredSnapshots

\* The restore loop over the entries, carrying the reducer state, the engine,
\* the error sink and hasSettings.
RECURSIVE RestoreLoop(_, _)
RestoreLoop(entries, acc) ==
    IF entries = <<>> THEN acc
    ELSE
        LET name == Head(entries)[1]
            content == Head(entries)[2]
            opts == updateOptions(acc.ws, content)
            isSettings == name = SETTINGS_FILE_NAME
            fresh == NewHandle(OpenHandles(acc.ws) \cup Handles(acc.files))
            ws == IF isSettings THEN opts.ws
                  ELSE WorkspaceOpenFile(acc.ws, fresh, name, content)
            handle == IF isSettings THEN null ELSE fresh
            action == [type |-> "add", handle |-> handle, content |-> content,
                       name |-> name]
        IN  RestoreLoop(Tail(entries),
                [files |-> Dispatch(acc.files, action).files,
                 ws |-> ws,
                 error |-> IF isSettings THEN opts.error ELSE acc.error,
                 hasSettings |-> acc.hasSettings \/ isSettings])

\* The startup callback leaving out the final selectFileByName dispatch.
RestoredKeepsLastAdded(snapshot) ==
    LET looped == RestoreLoop(snapshot.files,
                    [files |-> InitialFiles, ws |-> NewWorkspace,
                     error |-> NoError, hasSettings |-> FALSE])
        opts == updateOptions(looped.ws, NullContent)
    IN  [files |-> looped.files,
         ws |-> IF looped.hasSettings THEN looped.ws ELSE opts.ws,
         error |-> IF looped.hasSettings THEN looped.error ELSE opts.error]

Restored(snapshot) ==
    LET looped == RestoreLoop(snapshot.files,
                    [files |-> InitialFiles, ws |-> NewWorkspace,
                     error |-> NoError, hasSettings |-> FALSE])
        opts == updateOptions(looped.ws, NullContent)
        selectAction == [type |-> "selectFileByName", name |-> snapshot.current]
    IN  [files |-> Dispatch(looped.files, selectAction).files,
         ws |-> IF looped.hasSettings THEN looped.ws ELSE opts.ws,
         error |-> IF looped.hasSettings THEN looped.error ELSE opts.error]

Init ==
    /\ files = InitialFiles
    /\ workspace = NewWorkspace
    /\ error = NoError
    /\ phase = "loading"
    /\ monaco = "unloaded"
    /\ pending = <<>>
    /\ last = [op |-> "none", id |-> null, threw |-> FALSE, dispatched |-> FALSE,
               calls |-> <<>>]
    /\ secondaryTool = NoTool
    /\ deferredContent = NullContent
    /\ checkResult = EmptyResult
    /\ memoRan = TRUE
    /\ deferredFiles = InitialFiles
    /\ persisted = NoSnapshot

Startup ==
    /\ phase = "loading"
    /\ \E snapshot \in Snapshots :
        LET r == Restored(snapshot) IN
        /\ files' = r.files
        /\ workspace' = r.ws
        /\ error' = r.error
    /\ phase' = "ready"
    /\ last' = [op |-> "startup", id |-> null, threw |-> FALSE,
                dispatched |-> TRUE, calls |-> <<>>]
    /\ UNCHANGED <<monaco, pending>>

----------------------------------------------------------------------------
(* The handlers of Playground, as functions of what their closure sees      *)
(* (state: the files of the render they belong to) and of the engine.       *)
(* Each yields the engine and the error sink it leaves, the action it       *)
(* dispatches when it gets that far, the calls it made in order, and        *)
(* whether an engine call raised.                                           *)

Outcome(ws, err, calls, threw, dispatched, action) ==
    [ws |-> ws, error |-> err, calls |-> calls, threw |-> threw,
     dispatched |-> dispatched, action |-> action]

NoAction == [type |-> "none"]

\* handleFileAdded opening a file in the engine whatever its name.
FileAddedOpensAny(ws, err, fresh, name, openFails) ==
    IF openFails
    THEN Outcome(ws, err, <<"openFile">>, TRUE, FALSE, NoAction)
    ELSE Outcome(WorkspaceOpenFile(ws, fresh, name, ""), err,
                 <<"openFile", "dispatch">>, FALSE, TRUE,
                 [type |-> "add", name |-> name, handle |-> fresh,
                  content |-> ""])

FileAdded(ws, err, fresh, name, openFails) ==
    LET opts == updateOptions(ws, "{}") IN
    IF name = SETTINGS_FILE_NAME
    THEN Outcome(opts.ws, opts.error, Append(opts.calls, "dispatch"),
                 opts.threw, TRUE,
                 [type |-> "add", name |-> name, handle |-> null,
                  content |-> ""])
    ELSE IF openFails
    THEN Outcome(ws, err, <<"openFile">>, TRUE, FALSE, NoAction)
    ELSE Outcome(WorkspaceOpenFile(ws, fresh, name, ""), err,
                 <<"openFile", "dispatch">>, FALSE, TRUE,
                 [type |-> "add", name |-> name, handle |-> fresh,
                  content |-> ""])

\* useMemo fileName: the name of the selected record, "lib.py" when none
fileName(state) ==
    LET index == FindIndex(state.index, state.selected) IN
    IF index >= 0 THEN state.index[index + 1].name ELSE "lib.py"

\* handleFileChanged that dispatches and leaves the engine alone.
FileChangedStoreOnly(state, ws, err, content) ==
    Outcome(ws, err, <<"dispatch">>, FALSE, TRUE,
            [type |-> "change", id |-> state.selected, content |-> content])

FileChanged(state, ws, err, content) ==
    LET id == state.selected
        action == [type |-> "change", id |-> id, content |-> content]
        handle == state.handles[id]
        upd == updateFile(ws, handle, content)
        opts == updateOptions(ws, content)
    IN
    IF handle # null
    THEN Outcome(upd.ws, upd.error, <<"dispatch">> \o upd.calls, upd.threw,
                 TRUE, action)
    ELSE IF fileName(state) = SETTINGS_FILE_NAME
    THEN Outcome(opts.ws, opts.error, <<"dispatch">> \o opts.calls,
                 opts.threw, TRUE, action)
    ELSE Outcome(ws, err, <<"dispatch">>, FALSE, TRUE, action)

\* Release leaving the file open in the engine.
ReleaseKeepsOpen(ws, err, handle, closeFails) ==
    LET opts == updateOptions(ws, NullContent) IN
    IF handle = null
    THEN [ws |-> opts.ws, error |-> opts.error, calls |-> opts.calls,
          threw |-> opts.threw, aborted |-> FALSE]
    ELSE [ws |-> ws, error |-> err, calls |-> <<>>, threw |-> FALSE,
          aborted |-> FALSE]

\* The first half of handleFileRenamed and handleFileRemoved: release what
\* the file holds in the engine. closeFile of a handle that is no longer open
\* either raises (closeFails) or does nothing.
Release(ws, err, handle, closeFails) ==
    LET opts == updateOptions(ws, NullContent) IN
    IF handle = null
    THEN [ws |-> opts.ws, error |-> opts.error, calls |-> opts.calls,
          threw |-> opts.threw, aborted |-> FALSE]
    ELSE IF handle \notin OpenHandles(ws) /\ closeFails
    THEN [ws |-> ws, error |-> err, calls |-> <<"closeFile">>,
          threw |-> TRUE, aborted |-> TRUE]
    ELSE [ws |-> WorkspaceCloseFile(ws, handle), error |-> err,
          calls |-> <<"closeFile">>, threw |-> FALSE, aborted |-> FALSE]

FileRenamed(state, ws, err, fresh, file, newName, openFails, closeFails) ==
    LET rel == Release(ws, err, state.handles[file], closeFails)
        content == state.contents[file]
        opts == updateOptions(rel.ws, content)
        action(newHandle) == [type |-> "rename", id |-> file, to |-> newName,
                              newHandle |-> newHandle]
    IN
    IF rel.aborted
    THEN Outcome(rel.ws, rel.error, rel.calls, TRUE, FALSE, NoAction)
    ELSE IF newName = SETTINGS_FILE_NAME
    THEN Outcome(opts.ws, opts.error,
                 rel.calls \o opts.calls \o <<"dispatch">>,
                 rel.threw \/ opts.threw, TRUE, action(null))
    ELSE IF openFails
    THEN Outcome(rel.ws, rel.error, rel.calls \o <<"openFile">>, TRUE, FALSE,
                 NoAction)
    ELSE Outcome(WorkspaceOpenFile(rel.ws, fresh, newName, content), rel.error,
                 rel.calls \o <<"openFile", "dispatch">>, rel.threw, TRUE,
                 action(fresh))

\* handleFileRemoved; handle is files.handles[file] of the handler's closure.
FileRemoved(ws, err, file, handle, closeFails) ==
    LET rel == Release(ws, err, handle, closeFails) IN
    IF rel.aborted
    THEN Outcome(rel.ws, rel.error, rel.calls, TRUE, FALSE, NoAction)
    ELSE Outcome(rel.ws, rel.error, Append(rel.calls, "dispatch"), rel.threw,
                 TRUE, [type |-> "remove", id |-> file])

----------------------------------------------------------------------------
(* The events *)

\* Chrome renders Files and Editor, which call the handlers, only while a
\* file is selected. Once the import of a suspended handleRemoved has
\* resolved, the suspended calls continue before any other event is handled.
Rendered ==
    /\ phase = "ready"
    /\ files.selected # null
    /\ pending = <<>> \/ monaco = "loading"

\* The handle the next openFile returns.
FreshHandle ==
    NewHandle(OpenHandles(workspace) \cup Handles(files)
                \cup ({pending[i].handle : i \in DOMAIN pending} \ {null}))

\* The handler's effects: the engine and the error sink at once, its action
\* through the reducer at the next render (which raises when the reducer does).
Commit(op, id, out) ==
    LET d == Dispatch(files, out.action)
        reduced == out.dispatched /\ phase = "ready"
    IN
    /\ workspace' = out.ws
    /\ error' = out.error
    /\ files' = IF reduced THEN d.files ELSE files
    /\ phase' = IF reduced /\ d.crashed THEN "crashed" ELSE phase
    /\ last' = [op |-> op, id |-> id, threw |-> out.threw,
                dispatched |-> out.dispatched, calls |-> out.calls]

handleFileAdded(name, openFails) ==
    /\ Rendered
    /\ Commit("add", files.nextId,
              FileAdded(workspace, error, FreshHandle, name, openFails))
    /\ UNCHANGED <<monaco, pending>>

handleFileChanged(content) ==
    /\ Rendered
    /\ Commit("change", files.selected,
              FileChanged(files, workspace, error, content))
    /\ UNCHANGED <<monaco, pending>>

handleFileRenamed(file, newName, openFails, closeFails) ==
    /\ Rendered
    /\ file \in Ids(files.index)
    /\ Commit("rename", file,
              FileRenamed(files, workspace, error, FreshHandle, file, newName,
                          openFails, closeFails))
    /\ UNCHANGED <<monaco, pending>>

handleFileSelected(file) ==
    /\ Rendered
    /\ file \in Ids(files.index)
    /\ Commit("selectFile", file,
              Outcome(workspace, error, <<"dispatch">>, FALSE, TRUE,
                      [type |-> "selectFile", id |-> file]))
    /\ UNCHANGED <<monaco, pending>>

\* Chrome.handleRemoved where nothing can run between the click and the call
\* of onFileRemoved: the editor is not mounted yet (no await), or the module
\* awaited is loaded already.
handleRemovedNow(id, closeFails) ==
    /\ Rendered
    /\ monaco # "loading"
    /\ id \in Ids(files.index)
    /\ Commit("remove", id,
              FileRemoved(workspace, error, id, files.handles[id], closeFails))
    /\ UNCHANGED <<monaco, pending>>

\* Chrome.handleRemoved suspended at await import("monaco-editor") while the
\* module loads; it holds the onFileRemoved, and so the files, of the render
\* the click came from.
handleRemovedAwait(id) ==
    /\ Rendered
    /\ monaco # "loaded"
    /\ id \in Ids(files.index)
    /\ Len(pending) < MaxPending
    /\ pending' = Append(pending, [id |-> id, handle |-> files.handles[id]])
    /\ monaco' = "loading"
    /\ last' = [op |-> "removeAwait", id |-> id, threw |-> FALSE,
                dispatched |-> FALSE, calls |-> <<>>]
    /\ UNCHANGED <<files, workspace, error, phase>>

\* The import has resolved: the suspended calls continue, oldest first.
handleRemovedResume(closeFails) ==
    /\ phase # "loading"
    /\ pending # <<>>
    /\ monaco' = "loaded"
    /\ pending' = Tail(pending)
    /\ Commit("remove", Head(pending).id,
              FileRemoved(workspace, error, Head(pending).id,
                          Head(pending).handle, closeFails))

\* The session without its analysis pipeline, whose variables stay as Init
\* leaves them: the pipeline reads the session and the engine and writes
\* neither.
Next ==
    \/ Startup /\ UNCHANGED <<pipeline, autosave>>
    \/ \E name \in Names, openFails \in BOOLEAN :
            /\ files.nextId < MaxId
            /\ handleFileAdded(name, openFails)
            /\ UNCHANGED <<pipeline, autosave>>
    \/ \E content \in Contents :
            /\ files.revision < MaxRevision
            /\ handleFileChanged(content)
            /\ UNCHANGED <<pipeline, autosave>>
    \/ \E file \in Ids(files.index), newName \in Names,
          openFails \in BOOLEAN, closeFails \in BOOLEAN :
            /\ handleFileRenamed(file, newName, openFails, closeFails)
            /\ UNCHANGED <<pipeline, autosave>>
    \/ \E file \in Ids(files.index) :
            handleFileSelected(file) /\ UNCHANGED <<pipeline, autosave>>
    \/ \E id \in Ids(files.index), closeFails \in BOOLEAN :
            handleRemovedNow(id, closeFails) /\ UNCHANGED <<pipeline, autosave>>
    \/ \E id \in Ids(files.index) :
            handleRemovedAwait(id) /\ UNCHANGED <<pipeline, autosave>>
    \/ \E closeFails \in BOOLEAN :
            handleRemovedResume(closeFails) /\ UNCHANGED <<pipeline, autosave>>

Spec == Init /\ [][Next]_vars

----------------------------------------------------------------------------
(* The session with its analysis pipeline: Chrome mounts once startup has   *)
(* resolved the workspace promise; then files are selected and edited and   *)
(* the secondary tool is switched, each followed by the render that runs    *)
(* useCheckResult, and the deferred content catches up in a render of its   *)
(* own. Queries of the engine may raise.                                    *)

\* Snapshots these sessions start from: the default one, one with a file that
\* is no Python file, and one whose current names no file.
CheckSnapshots ==
    { DefaultSnapshot,
      [files |-> << <<"main.py", "import os">>, <<"notes.txt", "import os">>,
                    <<"lib.py", "">> >>,
       current |-> "lib.py"],
      [files |-> << <<"lib.py", "import os">> >>, current |-> "main.py"] }

\* files.selected == null ? null : files.contents[files.selected]
SelectedContent(state) ==
    IF state.selected = null THEN NullContent
    ELSE state.contents[state.selected]

CheckInit ==
    \E snapshot \in CheckSnapshots, checkFault \in BOOLEAN :
        LET r == Restored(snapshot) IN
        /\ files = r.files
        /\ workspace = r.ws
        /\ error = r.error
        /\ phase = "ready"
        /\ monaco = "unloaded"
        /\ pending = <<>>
        /\ last = [op |-> "startup", id |-> null, threw |-> FALSE,
                   dispatched |-> TRUE, calls |-> <<>>]
        /\ secondaryTool = NoTool
        /\ deferredContent = SelectedContent(r.files)
        /\ checkResult = useCheckResult(r.files, r.ws, NoTool,
                                        SelectedContent(r.files),
                                        checkFault, FALSE)
        /\ memoRan = TRUE
        /\ deferredFiles = InitialFiles
        /\ persisted = NoSnapshot

\* The render that follows a handler: useDeferredValue still returns the
\* content it had, and useMemo runs its callback when one of its
\* dependencies differs from the render before (files.handles is a new
\* object after every add, remove and rename). A render in which the
\* reducer raised never reaches Chrome.
Render(handlesReplaced, checkFault, secondaryFault) ==
    LET runs == /\ phase' = "ready"
                /\ \/ files'.selected # files.selected
                   \/ handlesReplaced
                   \/ secondaryTool' # secondaryTool
    IN
    /\ deferredContent' = deferredContent
    /\ memoRan' = runs
    /\ checkResult' =
            IF runs
            THEN useCheckResult(files', workspace', secondaryTool',
                                deferredContent', checkFault, secondaryFault)
            ELSE checkResult

\* The render React schedules for the deferred value: deferredContent takes
\* the content of the selected file and the memo runs again.
DeferredRender(checkFault, secondaryFault) ==
    /\ phase = "ready"
    /\ deferredContent # SelectedContent(files)
    /\ deferredContent' = SelectedContent(files)
    /\ checkResult' = useCheckResult(files, workspace, secondaryTool,
                                     deferredContent', checkFault,
                                     secondaryFault)
    /\ memoRan' = TRUE
    /\ UNCHANGED <<files, workspace, error, phase, monaco, pending, last,
                   secondaryTool>>

handleSecondaryToolSelected(tool) ==
    /\ Rendered
    /\ secondaryTool' = IF tool = secondaryTool THEN NoTool ELSE tool
    /\ last' = [op |-> "secondaryTool", id |-> null, threw |-> FALSE,
                dispatched |-> FALSE, calls |-> <<>>]
    /\ UNCHANGED <<files, workspace, error, phase, monaco, pending>>

CheckNext ==
    \/ \E file \in Ids(files.index), checkFault, secondaryFault \in BOOLEAN :
            /\ handleFileSelected(file)
            /\ UNCHANGED <<secondaryTool, autosave>>
            /\ Render(FALSE, checkFault, secondaryFault)
    \/ \E content \in Contents, checkFault, secondaryFault \in BOOLEAN :
            /\ files.revision < MaxCheckRevision
            /\ handleFileChanged(content)
            /\ UNCHANGED <<secondaryTool, autosave>>
            /\ Render(FALSE, checkFault, secondaryFault)
    \/ \E tool \in SecondaryTools, checkFault, secondaryFault \in BOOLEAN :
            /\ handleSecondaryToolSelected(tool)
            /\ UNCHANGED autosave
            /\ Render(FALSE, checkFault, secondaryFault)
    \/ \E checkFault, secondaryFault \in BOOLEAN :
            DeferredRender(checkFault, secondaryFault) /\ UNCHANGED autosave

CheckSpec == CheckInit /\ [][CheckNext]_vars

\* React runs the deferred render it has scheduled once no urgent update is
\* left to handle.
CheckFairSpec ==
    /\ CheckSpec
    /\ WF_vars(\E checkFault, secondaryFault \in BOOLEAN :
                    DeferredRender(checkFault, secondaryFault)
                        /\ UNCHANGED autosave)

----------------------------------------------------------------------------
(* The same session where files are also added, renamed and removed, each   *)
(* followed by its render: files.handles is another object afterwards.      *)
(* Queries of the engine raise here only for a handle that is closed.       *)

MemoSnapshots ==
    { [files |-> << <<"main.py", "import os">> >>, current |-> "main.py"],
      [files |-> << <<"main.py", "import os">>, <<"lib.py", "">> >>,
       current |-> "lib.py"] }

\* The names files are given there.
MemoNames == {"lib.py", SETTINGS_FILE_NAME}

MemoInit ==
    \E snapshot \in MemoSnapshots :
        LET r == Restored(snapshot) IN
        /\ files = r.files
        /\ workspace = r.ws
        /\ error = r.error
        /\ phase = "ready"
        /\ monaco = "unloaded"
        /\ pending = <<>>
        /\ last = [op |-> "startup", id |-> null, threw |-> FALSE,
                   dispatched |-> TRUE, calls |-> <<>>]
        /\ secondaryTool = NoTool
        /\ deferredContent = SelectedContent(r.files)
        /\ checkResult = useCheckResult(r.files, r.ws, NoTool,
                                        SelectedContent(r.files), FALSE, FALSE)
        /\ memoRan = TRUE
        /\ deferredFiles = InitialFiles
        /\ persisted = NoSnapshot

MemoNext ==
    \/ \E file \in Ids(files.index) :
            /\ handleFileSelected(file)
            /\ UNCHANGED <<secondaryTool, autosave>>
            /\ Render(FALSE, FALSE, FALSE)
    \/ \E content \in Contents :
            /\ files.revision < MaxMemoRevision
            /\ handleFileChanged(content)
            /\ UNCHANGED <<secondaryTool, autosave>>
            /\ Render(FALSE, FALSE, FALSE)
    \/ \E name \in MemoNames :
            /\ files.nextId < MaxCheckId
            /\ handleFileAdded(name, FALSE)
            /\ UNCHANGED <<secondaryTool, autosave>>
            /\ Render(last'.dispatched, FALSE, FALSE)
    \/ \E file \in Ids(files.index), newName \in MemoNames,
          openFails \in BOOLEAN :
            /\ handleFileRenamed(file, newName, openFails, FALSE)
            /\ UNCHANGED <<secondaryTool, autosave>>
            /\ Render(last'.dispatched, FALSE, FALSE)
    \/ \E id \in Ids(files.index) :
            /\ handleRemovedNow(id, FALSE)
            /\ UNCHANGED <<secondaryTool, autosave>>
            /\ Render(last'.dispatched, FALSE, FALSE)
    \/ \E tool \in MemoTools :
            /\ handleSecondaryToolSelected(tool)
            /\ UNCHANGED autosave
            /\ Render(FALSE, FALSE, FALSE)
    \/ DeferredRender(FALSE, FALSE) /\ UNCHANGED autosave

MemoSpec == MemoInit /\ [][MemoNext]_vars

----------------------------------------------------------------------------
(* The session with its autosave: usePersistLocally sees the files of every *)
(* render of Playground; its deferred value lags, and the effect that       *)
(* serializes and stores it runs in the render where it catches up.         *)

\* The names files are given there: one of them twice.
PersistNames == {"main.py", SETTINGS_FILE_NAME}

\* The deferred render of usePersistLocally and its effect.
persistLocally ==
    LET serialized == serializeFiles(files) IN
    /\ phase = "ready"
    /\ deferredFiles # files
    /\ deferredFiles' = files
    /\ persisted' = IF serialized # NoSnapshot THEN serialized ELSE persisted
    /\ UNCHANGED <<files, workspace, error, phase, monaco, pending, last,
                   pipeline>>

PersistNext ==
    \/ Startup /\ UNCHANGED <<pipeline, autosave>>
    \/ \E name \in PersistNames :
            /\ files.nextId < MaxPersistId
            /\ handleFileAdded(name, FALSE)
            /\ UNCHANGED <<pipeline, autosave>>
    \/ \E content \in Contents :
            /\ files.revision < MaxPersistRevision
            /\ handleFileChanged(content)
            /\ UNCHANGED <<pipeline, autosave>>
    \/ \E file \in Ids(files.index), newName \in PersistNames :
            /\ handleFileRenamed(file, newName, FALSE, FALSE)
            /\ UNCHANGED <<pipeline, autosave>>
    \/ \E file \in Ids(files.index) :
            handleFileSelected(file) /\ UNCHANGED <<pipeline, autosave>>
    \/ \E id \in Ids(files.index) :
            handleRemovedNow(id, FALSE) /\ UNCHANGED <<pipeline, autosave>>
    \/ persistLocally

PersistSpec == Init /\ [][PersistNext]_vars

\* React runs the deferred render it has scheduled once no urgent update is
\* left to handle.
PersistFairSpec == PersistSpec /\ WF_vars(persistLocally)

----------------------------------------------------------------------------
(* The session whose settings are edited: the texts typed are settings that *)
(* differ from the default ones, and a text that is no JSON.                *)

OptionsContents == {"{}", "import os"}

OptionsNames == {"main.py", SETTINGS_FILE_NAME}

OptionsNext ==
    \/ Startup /\ UNCHANGED <<pipeline, autosave>>
    \/ \E name \in OptionsNames :
            /\ files.nextId < MaxOptionsId
            /\ handleFileAdded(name, FALSE)
            /\ UNCHANGED <<pipeline, autosave>>
    \/ \E content \in OptionsContents :
            /\ files.revision < MaxOptionsRevision
            /\ handleFileChanged(content)
            /\ UNCHANGED <<pipeline, autosave>>
    \/ \E file \in Ids(files.index), newName \in OptionsNames :
            /\ handleFileRenamed(file, newName, FALSE, FALSE)
            /\ UNCHANGED <<pipeline, autosave>>
    \/ \E file \in Ids(files.index) :
            handleFileSelected(file) /\ UNCHANGED <<pipeline, autosave>>
    \/ \E id \in Ids(files.index) :
            handleRemovedNow(id, FALSE) /\ UNCHANGED <<pipeline, autosave>>
    \/ \E id \in Ids(files.index) :
            handleRemovedAwait(id) /\ UNCHANGED <<pipeline, autosave>>
    \/ handleRemovedResume(FALSE) /\ UNCHANGED <<pipeline, autosave>>

OptionsSpec == Init /\ [][OptionsNext]_vars

----------------------------------------------------------------------------
(* filesReducer on its own: dispatch of any action for an id of index *)

\* Handles are opaque to the reducer: null or some handle.
StoreHandles == {null, 1, 2}

\* The handle the bridge passes for a name: null for the settings file, an
\* engine handle for any other file.
HandleFor(name) ==
    IF name = SETTINGS_FILE_NAME THEN {null} ELSE StoreHandles \ {null}

StoreContents == {"", "import os"}

StoreNames == {"main.py", SETTINGS_FILE_NAME}

StoreActions ==
    {a \in [type : {"add"}, handle : StoreHandles, name : StoreNames,
            content : StoreContents] : a.handle \in HandleFor(a.name)}
    \cup [type : {"change"}, id : Ids(files.index), content : StoreContents]
    \cup {a \in [type : {"rename"}, id : Ids(files.index), to : StoreNames,
            newHandle : StoreHandles] : a.newHandle \in HandleFor(a.to)}
    \cup [type : {"remove"}, id : Ids(files.index)]
    \cup [type : {"selectFile"}, id : Ids(files.index)]
    \cup [type : {"selectFileByName"}, name : StoreNames]

StoreInit ==
    /\ files = InitialFiles
    /\ workspace = NewWorkspace
    /\ error = NoError
    /\ phase = "ready"
    /\ monaco = "unloaded"
    /\ pending = <<>>
    /\ last = [op |-> "none", action |-> NoAction]
    /\ secondaryTool = NoTool
    /\ deferredContent = NullContent
    /\ checkResult = EmptyResult
    /\ memoRan = TRUE
    /\ deferredFiles = InitialFiles
    /\ persisted = NoSnapshot

\* dispatchFiles(action), rendered
StoreDispatch(action) ==
    /\ phase = "ready"
    /\ action.type = "add" => files.nextId < MaxStoreId
    /\ action.type \in {"add", "change", "remove"}
            => files.revision < MaxStoreRevision
    /\ files' = Dispatch(files, action).files
    /\ phase' = IF Dispatch(files, action).crashed THEN "crashed" ELSE phase
    /\ last' = [op |-> action.type, action |-> action]
    /\ UNCHANGED <<workspace, error, monaco, pending, pipeline, autosave>>

StoreNext == \E action \in StoreActions : StoreDispatch(action)

StoreSpec == StoreInit /\ [][StoreNext]_vars

----------------------------------------------------------------------------
(* filesReducer with actions for ids that are not in index as well: ids of  *)
(* files removed earlier and ids never handed out. The session is followed  *)
(* up to the first state in which contents or handles are not keyed by the  *)
(* ids of index, or the selection is not in index.                          *)

StoreIntact(state) ==
    /\ DOMAIN state.contents = Ids(state.index)
    /\ DOMAIN state.handles = Ids(state.index)
    /\ state.selected = null \/ state.selected \in Ids(state.index)

StaleIds == (0..(MaxStoreId - 1)) \ Ids(files.index)

StaleActions ==
    [type : {"change"}, id : StaleIds, content : StoreContents]
    \cup {a \in [type : {"rename"}, id : StaleIds, to : StoreNames,
            newHandle : StoreHandles] : a.newHandle \in HandleFor(a.to)}
    \cup [type : {"remove"}, id : StaleIds]

StaleNext ==
    /\ StoreIntact(files)
    /\ \/ StoreNext
       \/ \E action \in StaleActions : StoreDispatch(action)

StaleSpec == StoreInit /\ [][StaleNext]_vars

----------------------------------------------------------------------------
(* Properties *)

\* The 1-based position of id in index, 0 when it is not there.
Position(index, id) ==
    IF \E i \in 1..Len(index) : index[i].id = id
    THEN CHOOSE i \in 1..Len(index) : index[i].id = id
    ELSE 0

SettingsRecords(state) ==
    {i \in 1..Len(state.index) : state.index[i].name = SETTINGS_FILE_NAME}

\* C1. contents and handles are keyed by exactly the ids of index, after
\* every handler of the session (startup, add, change, rename, remove, select).
ContentsAndHandlesMatchIndex ==
    /\ DOMAIN files.contents = Ids(files.index)
    /\ DOMAIN files.handles = Ids(files.index)

\* A remove went through the reducer and left a file behind.
C1Witness ==
    /\ last.op = "remove"
    /\ last.dispatched
    /\ phase = "ready"
    /\ Len(files.index) = 1

\* C2. The selection is none or the id of a record of index, after any
\* sequence of actions dispatched for ids of index.
SelectedIsInIndex ==
    files.selected = null \/ files.selected \in Ids(files.index)

\* A remove of the first record returned with the selection on a remaining one.
C2Witness ==
    /\ last.op = "remove"
    /\ phase = "ready"
    /\ files.selected # null
    /\ last.action.id < files.selected

\* C3. At most one record of index has the reserved settings name, and that
\* record has no handle.
AtMostOneSettingsFile ==
    /\ Cardinality(SettingsRecords(files)) <= 1
    /\ \A i \in SettingsRecords(files) : files.handles[files.index[i].id] = null

\* C4. Ids are never reused: the ids of index are distinct and below nextId,
\* nextId never decreases, and an add appends the record with id nextId and
\* moves nextId on by one.
IdsNeverReused ==
    /\ [](/\ \A i \in 1..Len(files.index) : files.index[i].id < files.nextId
          /\ \A i, j \in 1..Len(files.index) :
                i # j => files.index[i].id # files.index[j].id)
    /\ [][/\ files'.nextId >= files.nextId
          /\ last'.op = "add" =>
                /\ files'.index[Len(files'.index)].id = files.nextId
                /\ files'.nextId = files.nextId + 1]_vars

\* An add after a remove: fewer records than ids handed out.
C4Witness ==
    /\ last.op = "add"
    /\ files.nextId = 3
    /\ Len(files.index) = 2

\* C5. After a handler in which no engine call raised, the handles open in
\* the engine are exactly the handles the store records.
EngineHandlesMatchStore ==
    (last.op \in {"add", "change", "rename", "remove"} /\ ~last.threw)
        => OpenHandles(workspace) = Handles(files)

\* The selection the remove of the selected file id is to make: the record
\* before it, else the record after it, else none.
NeighbourOf(index, id) ==
    LET p == Position(index, id) IN
    IF p > 1 THEN index[p - 1].id
    ELSE IF p < Len(index) THEN index[p + 1].id
    ELSE null

\* C6. remove of the selected file selects the record before it, else the
\* record after it, else none.
RemoveSelectsNeighbour ==
    [][(last'.op = "remove" /\ files.selected = last'.action.id)
        => files'.selected = NeighbourOf(files.index, last'.action.id)]_vars

\* C7. The reducer never raises on an action for an id of index.
StoreNeverThrows == phase # "crashed"

\* C8. add appends one record with the id nextId, sets its content and
\* handle, selects it and moves revision and nextId on by one; what was there
\* stays as it was.
AddAppendsAndSelects ==
    [][last'.op = "add" =>
        LET a == last'.action
            id == files.nextId
        IN  /\ files'.index = Append(files.index, [id |-> id, name |-> a.name])
            /\ DOMAIN files'.contents = DOMAIN files.contents \cup {id}
            /\ DOMAIN files'.handles = DOMAIN files.handles \cup {id}
            /\ files'.contents[id] = a.content
            /\ files'.handles[id] = a.handle
            /\ \A k \in DOMAIN files.contents :
                    files'.contents[k] = files.contents[k]
            /\ \A k \in DOMAIN files.handles :
                    files'.handles[k] = files.handles[k]
            /\ files'.selected = id
            /\ files'.revision = files.revision + 1
            /\ files'.nextId = files.nextId + 1]_vars

\* An add onto a session of two files, one of them selected before.
C8Witness ==
    /\ last.op = "add"
    /\ Len(files.index) = 3
    /\ files.selected = files.nextId - 1
    /\ files.contents[files.selected] = last.action.content

\* C9. Every add, change, rename and remove the reducer returns from leaves
\* a revision greater than before, and no transition decreases revision.
RevisionStrictlyIncreases ==
    [][/\ files'.revision >= files.revision
       /\ (last'.op \in {"add", "change", "rename", "remove"}
            /\ phase' = "ready")
                => files'.revision > files.revision]_vars

\* C10. rename replaces the name of the record of id, in place, and its
\* handle; the ids and their order, the other names and handles, contents
\* and the selection stay as they were.
RenameInPlace ==
    [][last'.op = "rename" =>
        LET a == last'.action
            p == Position(files.index, a.id)
        IN  /\ Len(files'.index) = Len(files.index)
            /\ \A i \in 1..Len(files.index) :
                /\ files'.index[i].id = files.index[i].id
                /\ files'.index[i].name =
                        IF i = p THEN a.to ELSE files.index[i].name
            /\ DOMAIN files'.handles = DOMAIN files.handles
            /\ \A k \in DOMAIN files.handles :
                    files'.handles[k] =
                        IF k = a.id THEN a.newHandle ELSE files.handles[k]
            /\ files'.contents = files.contents
            /\ files'.selected = files.selected]_vars

\* The middle one of three records was renamed while another was selected.
C10Witness ==
    /\ last.op = "rename"
    /\ Len(files.index) = 3
    /\ files.index[2].id = last.action.id
    /\ files.index[2].name = SETTINGS_FILE_NAME
    /\ files.selected = files.index[3].id

\* C11. change of a file of index replaces the content of that file and
\* nothing else of the session: the selection, index, handles, the id counter
\* and the content of every other file stay as they were.
ChangeReplacesContentOnly ==
    [][last'.op = "change" =>
        LET a == last'.action IN
        /\ files'.selected = files.selected
        /\ files'.index = files.index
        /\ files'.handles = files.handles
        /\ files'.nextId = files.nextId
        /\ DOMAIN files'.contents = DOMAIN files.contents
        /\ files'.contents[a.id] = a.content
        /\ \A k \in DOMAIN files.contents \ {a.id} :
                files'.contents[k] = files.contents[k]]_vars

\* A change of the first of two files while the other one is selected and
\* holds another content.
C11Witness ==
    /\ last.op = "change"
    /\ Len(files.index) = 2
    /\ last.action.id = files.index[1].id
    /\ files.selected = files.index[2].id
    /\ files.contents[last.action.id] = "import os"
    /\ files.contents[files.selected] = ""

\* C12. selectFileByName selects the first record of index, in order, that
\* has the name, also when several records have it, and selects none when no
\* record has it.
SelectByNameTakesFirst ==
    [][last'.op = "selectFileByName" =>
        LET name == last'.action.name
            named == {i \in 1..Len(files.index) : files.index[i].name = name}
        IN  IF named = {}
            THEN files'.selected = null
            ELSE \E i \in named :
                    /\ \A j \in named : i <= j
                    /\ files'.selected = files.index[i].id]_vars

\* The name is that of the second and of the third record of three, and the
\* second one is selected.
C12Witness ==
    /\ last.op = "selectFileByName"
    /\ Len(files.index) = 3
    /\ files.index[1].name # last.action.name
    /\ files.index[2].name = last.action.name
    /\ files.index[3].name = last.action.name
    /\ files.selected = files.index[2].id

\* C13. change, remove or rename dispatched with an id that is not in index,
\* on a session whose contents and handles are keyed by the ids of index and
\* whose selection is none or in index, leaves such a session: index has the
\* records it had, contents and handles are keyed by its ids, and the
\* selection is none or in index.
StaleIdKeepsInvariants ==
    [][(/\ last'.op \in {"change", "remove", "rename"}
        /\ last'.action.id \notin Ids(files.index)
        /\ StoreIntact(files))
        => /\ files'.index = files.index
           /\ StoreIntact(files')]_vars

\* C14. In add, change, rename and remove, the handler makes its engine calls
\* before it dispatches its action: no call of the engine follows the dispatch.
EngineCallsBeforeDispatch ==
    last.op \in {"add", "change", "rename", "remove"} =>
        \A i, j \in 1..Len(last.calls) :
            (last.calls[i] = "dispatch" /\ last.calls[j] # "dispatch") => j < i

\* C15. A rename of a file that has a handle to a name other than the
\* settings name, in which no engine call raises, calls closeFile, then
\* openFile, then dispatches: the old handle is closed, the handle the store
\* records for the same id is a new one, open under the new name with the
\* content the file has. In every rename of a file that has a handle,
\* closeFile is the first call, openFile follows it at once and the dispatch,
\* when the handler gets that far, is the last call.
RenameClosesThenOpens ==
    /\ [][(last'.op = "rename" /\ files.handles[last'.id] # null)
            => /\ last'.calls # <<>>
               /\ Head(last'.calls) = "closeFile"
               /\ \A i \in 1..Len(last'.calls) :
                    /\ last'.calls[i] = "openFile" => i = 2
                    /\ last'.calls[i] = "dispatch" => i = Len(last'.calls)]_vars
    /\ [][(/\ last'.op = "rename"
           /\ ~last'.threw
           /\ files.handles[last'.id] # null
           /\ files'.index[Position(files.index, last'.id)].name
                   # SETTINGS_FILE_NAME)
           => LET id == last'.id
                  p == Position(files.index, id)
                  old == files.handles[id]
                  new == files'.handles[id]
              IN  /\ last'.calls = <<"closeFile", "openFile", "dispatch">>
                  /\ files'.index[p].id = id
                  /\ old \notin OpenHandles(workspace')
                  /\ new # null
                  /\ new \notin OpenHandles(workspace) \cup {old}
                  /\ new \in OpenHandles(workspace')
                  /\ workspace'.open[new] =
                       [path |-> files'.index[p].name,
                        content |-> files.contents[id]]]_vars

\* main.py holding "import os" was renamed to lib.py.
C15Witness ==
    /\ last.op = "rename"
    /\ last.calls = <<"closeFile", "openFile", "dispatch">>
    /\ Len(files.index) >= 1
    /\ files.index[1].id = last.id
    /\ files.index[1].name = "lib.py"
    /\ files.contents[last.id] = "import os"
    /\ files.handles[last.id] \in OpenHandles(workspace)
    /\ workspace.open[files.handles[last.id]] =
            [path |-> "lib.py", content |-> "import os"]

\* C16. After an add, change, rename or remove in which an engine call
\* raised, the error sink holds a message, the action of the handler has been
\* dispatched, and every handle the store records is open in the engine.
EngineFailureIsCaught ==
    (last.op \in {"add", "change", "rename", "remove"} /\ last.threw)
        => /\ error # NoError
           /\ last.dispatched
           /\ Handles(files) \subseteq OpenHandles(workspace)

\* Settings texts handed to updateOptions: the texts of the editor, the
\* empty settings of a new file, settings the engine rejects and no text.
SettingsTexts == Contents \cup {"", "{}", "{rules:1}", NullContent}

\* C17. updateOptions with a text that is no JSON calls nothing of the
\* engine, leaves the engine as it is and hands the error sink a message that
\* starts with the options label; when the text is applied, it hands the
\* error sink null. So a change of the settings file to a text that is no
\* JSON leaves the options of the engine as they were and the label in the
\* error sink, and a change to valid settings applies them and clears it.
SettingsParseFailureKeepsOptions ==
    /\ [](\A text \in SettingsTexts :
            LET r == updateOptions(workspace, text) IN
            /\ (text # NullContent /\ ~JsonParses(text))
                    => /\ r.calls = <<>>
                       /\ r.ws = workspace
                       /\ r.error # NoError
                       /\ Head(r.error) = OptionsError
            /\ (r.calls # <<>> /\ ~r.threw) => r.error = NoError)
    /\ [][(/\ last'.op = "change"
           /\ files.handles[files.selected] = null
           /\ fileName(files) = SETTINGS_FILE_NAME)
           => LET text == files'.contents[files.selected] IN
              IF JsonParses(text)
              THEN /\ workspace'.options = JsonParse(text)
                   /\ error' = NoError
              ELSE /\ workspace' = workspace
                   /\ last'.calls = <<"dispatch">>
                   /\ error' # NoError
                   /\ Head(error') = OptionsError]_vars

\* The settings file was changed to a text that is no JSON while the engine
\* held the default settings.
C17Witness ==
    /\ last.op = "change"
    /\ last.calls = <<"dispatch">>
    /\ fileName(files) = SETTINGS_FILE_NAME
    /\ files.contents[files.selected] = "import os"
    /\ error # NoError
    /\ Head(error) = OptionsError
    /\ workspace.options = {"environment", "rules"}

\* C18. While no file is selected, or the selected file has no handle, the
\* result of the pipeline has no diagnostics, no error and no secondary
\* result, and its computation called nothing of the engine.
NoHandleNoAnalysis ==
    (files.selected = null \/ currentHandle(files) = null)
        => /\ checkResult.diagnostics = <<>>
           /\ checkResult.error = NoError
           /\ checkResult.secondary = NoSecondary
           /\ checkResult.calls = <<>>

\* The settings file was selected, after a file that was checked, with the
\* AST tool on.
C18Witness ==
    /\ last.op = "selectFile"
    /\ files.selected = last.id
    /\ currentHandle(files) = null
    /\ secondaryTool = "AST"
    /\ checkResult = EmptyResult

\* C19. When workspace.checkFile raises, whichever secondary tool is
\* selected, the result has no diagnostics, the formatted message of the
\* failure as its error and no secondary result, and checkFile is the only
\* call made.
CheckFailureBlanksAll ==
    /\ \A tool \in SecondaryTools \cup {NoTool}, secondaryFault \in BOOLEAN :
            Analyzable(files, deferredContent) =>
                LET r == useCheckResult(files, workspace, tool,
                                        deferredContent, TRUE, secondaryFault)
                IN  /\ r.diagnostics = <<>>
                    /\ r.error = formatError(EngineErrorMessage)
                    /\ r.secondary = NoSecondary
                    /\ r.calls = <<"checkFile">>
    /\ checkResult.threw = "check"
            => /\ checkResult.diagnostics = <<>>
               /\ checkResult.error # NoError
               /\ checkResult.secondary = NoSecondary
               /\ checkResult.calls = <<"checkFile">>

\* The check of a Python file raised while the AST tool was on.
C19Witness ==
    /\ checkResult.threw = "check"
    /\ secondaryTool = "AST"
    /\ currentHandle(files) \in OpenHandles(workspace)
    /\ checkResult.error = <<"engine">>

\* C20. When workspace.checkFile returns and the query of the AST or Tokens
\* tool raises, the result has the diagnostics checkFile returned, no error,
\* and the secondary result {status: error} with the message of the failure.
SecondaryFailureKeepsDiagnostics ==
    /\ \A tool \in {"AST", "Tokens"} :
            (/\ Analyzable(files, deferredContent)
             /\ currentHandle(files) \in OpenHandles(workspace))
            =>  LET r == useCheckResult(files, workspace, tool,
                                        deferredContent, FALSE, TRUE)
                IN  /\ r.diagnostics =
                            WorkspaceCheckFile(workspace, currentHandle(files))
                    /\ r.diagnostics # <<>>
                    /\ r.error = NoError
                    /\ r.secondary =
                            [status |-> "error", error |-> EngineErrorMessage]
    /\ checkResult.threw = "secondary"
            => /\ checkResult.diagnostics # <<>>
               /\ checkResult.error = NoError
               /\ checkResult.secondary.status = "error"

\* The Tokens tool was switched on over a checked file and its query raised.
C20Witness ==
    /\ last.op = "secondaryTool"
    /\ secondaryTool = "Tokens"
    /\ checkResult.threw = "secondary"
    /\ checkResult.calls = <<"checkFile", "tokens">>
    /\ checkResult.diagnostics =
            WorkspaceCheckFile(workspace, currentHandle(files))

----------------------------------------------------------------------------
\* C21: the pipeline calls the engine again only in a render where the
\* deferred content, the selected file id or the secondary tool differs from
\* the render before (the engine instance never changes): a render after a
\* transition that leaves them alone, such as removing or renaming a file
\* that is not selected, makes no check call.
MemoRunsOnlyOnTupleChange ==
    [][(memoRan' /\ checkResult'.calls # <<>>)
            => \/ deferredContent' # deferredContent
               \/ files'.selected # files.selected
               \/ secondaryTool' # secondaryTool]_vars

----------------------------------------------------------------------------
\* C22: the latest deferred value wins. A deferred content that lags behind
\* the content of the selected file catches up with it eventually, and
\* whenever it has caught up the result is the one the pipeline computes
\* from the session and the engine as they are now (for the latest content,
\* whether or not its queries raised): no result for an older content stays.
\* The first conjunct holds under the fairness of the deferred render.
LatestDeferredValueWins ==
    /\ (deferredContent # SelectedContent(files))
            ~> (deferredContent = SelectedContent(files))
    /\ [](deferredContent = SelectedContent(files)
            => \E checkFault, secondaryFault \in BOOLEAN :
                    checkResult = useCheckResult(files, workspace,
                                    secondaryTool, deferredContent,
                                    checkFault, secondaryFault))

----------------------------------------------------------------------------
\* The pairs of name and content of the files of a session, and of the
\* entries of a snapshot.
NameContents(state) ==
    {<<state.index[i].name, state.contents[state.index[i].id]>> :
        i \in DOMAIN state.index}

SnapshotEntries(snapshot) ==
    {snapshot.files[i] : i \in DOMAIN snapshot.files}

\* The name of the selected record.
SelectedName(state) ==
    state.index[Position(state.index, state.selected)].name

\* C23: serializeFiles returns no snapshot exactly when no record of index is
\* selected; otherwise its files hold, for every record of index, an entry of
\* the record's name with the content of that file, and its current is the
\* name of the selected record.
SerializeMapsEveryRecord ==
    LET serialized == serializeFiles(files) IN
    /\ serialized = NoSnapshot <=> files.selected \notin Ids(files.index)
    /\ serialized # NoSnapshot
        => /\ NameContents(files) \subseteq SnapshotEntries(serialized)
           /\ serialized.current = SelectedName(files)

\* C24: round trip. For a session with a selection, the session startup
\* rebuilds from serializeFiles of it has the same pairs of name and content
\* and the same selected name.
RestoreOfSerializeIsSession ==
    files.selected \in Ids(files.index)
        => LET rebuilt == Restored(serializeFiles(files)).files IN
           /\ NameContents(rebuilt) = NameContents(files)
           /\ rebuilt.selected \in Ids(rebuilt.index)
           /\ SelectedName(rebuilt) = SelectedName(files)

\* C25: autosave. What persistLocal wrote last is always the serialization of
\* the deferred files (nothing while they have no selection), and deferred
\* files that lag behind the session catch up with it eventually: once the
\* session is idle the last snapshot written is serializeFiles of its latest
\* state.
AutosaveWritesLatest ==
    /\ [](persisted = serializeFiles(deferredFiles))
    /\ (deferredFiles # files) ~> (deferredFiles = files)

----------------------------------------------------------------------------
\* C26: every message shown for an engine failure went through formatError,
\* which takes one leading "Error: " off a message that starts with it and
\* returns any other message as it is: the message of the error sink after
\* its label, the error of the check result and the error of the secondary
\* panel are formatError of the message the engine raised.
EngineMessagesAreFormatted ==
    /\ formatError(<<ErrorPrefix, ErrorPrefix, "engine">>)
            = <<ErrorPrefix, "engine">>
    /\ formatError(SyntaxErrorMessage) = SyntaxErrorMessage
    /\ (last.threw /\ error # NoError)
        => error \in {<<OptionsError>> \o formatError(EngineErrorMessage),
                      <<FileError>> \o formatError(EngineErrorMessage)}
    /\ checkResult.threw = "check"
        => checkResult.error = formatError(EngineErrorMessage)
    /\ checkResult.secondary.status = "error"
        => checkResult.secondary.error = formatError(EngineErrorMessage)

----------------------------------------------------------------------------
\* C27: after startup and after every add, rename and remove of the bridge,
\* the handle of a record is null exactly when the name of the record is
\* SETTINGS_FILE_NAME.
HandleAbsentIffSettingsName ==
    last.op \in {"startup", "add", "rename", "remove"}
        => \A i \in DOMAIN files.index :
                (files.handles[files.index[i].id] = null)
                    <=> (files.index[i].name = SETTINGS_FILE_NAME)

\* A rename has turned a file into the settings file, next to a file that
\* is open in the engine.
C27Witness ==
    /\ last.op = "rename"
    /\ last.dispatched
    /\ "openFile" \notin {last.calls[i] : i \in DOMAIN last.calls}
    /\ \E i, j \in DOMAIN files.index :
            /\ files.index[i].id = last.id
            /\ files.index[i].name = SETTINGS_FILE_NAME
            /\ files.handles[last.id] = null
            /\ files.index[j].name # SETTINGS_FILE_NAME
            /\ files.handles[files.index[j].id] # null

----------------------------------------------------------------------------
\* C28: after startup and after every completed operation of the bridge, the
\* options of the engine are the default settings when index holds no
\* settings file, and the parsed content of the settings file when index
\* holds one whose content parses and is accepted by the engine (so removing
\* the settings file, or renaming it to another name, resets the engine to
\* the default settings).
EngineOptionsFollowSettingsFile ==
    LET content(position) == files.contents[files.index[position].id] IN
    phase = "ready"
        => /\ SettingsRecords(files) = {}
                => workspace.options = JsonParse(DEFAULT_SETTINGS)
           /\ \A position \in SettingsRecords(files) :
                (/\ SettingsRecords(files) = {position}
                 /\ JsonParses(content(position))
                 /\ ValidSettings(JsonParse(content(position))))
                    => workspace.options = JsonParse(content(position))

----------------------------------------------------------------------------
\* C29: after every change of content whose engine update did not raise, and
\* after every add and rename, the content the engine holds for each handle
\* it has open is contents[id] of the file the store binds to that handle.
EngineContentMatchesStore ==
    (/\ phase = "ready"
     /\ last.dispatched
     /\ \/ last.op = "change" /\ ~last.threw
        \/ last.op \in {"add", "rename"})
        => \A i \in DOMAIN files.index :
            LET id == files.index[i].id
                handle == files.handles[id]
            IN  (handle # null /\ handle \in OpenHandles(workspace))
                    => workspace.open[handle].content = files.contents[id]

\* An edit has replaced the content of the selected file, in the store and
\* in the engine.
C29Witness ==
    /\ last.op = "change"
    /\ ~last.threw
    /\ "updateFile" \in {last.calls[i] : i \in DOMAIN last.calls}
    /\ files.selected = last.id
    /\ files.handles[last.id] \in OpenHandles(workspace)
    /\ files.contents[last.id] = DEFAULT_SETTINGS
    /\ workspace.open[files.handles[last.id]].content = DEFAULT_SETTINGS

----------------------------------------------------------------------------
\* C30: whatever ran between the click on remove and the call of the bridge
\* it awaited (a rename of the same file, another remove), the remove that
\* resumes closes only a handle that is still open, so that no handle is
\* closed twice, and once it has completed the engine has no handle open for
\* the file removed. Stated for sessions whose store held only open handles
\* when the remove resumed.
RemoveClosesOnceAndAll ==
    [][(/\ pending # <<>>
        /\ pending' = Tail(pending)
        /\ Handles(files) \subseteq OpenHandles(workspace)
        /\ last'.op = "remove"
        /\ last'.dispatched)
        => /\ "closeFile" \in {last'.calls[i] : i \in DOMAIN last'.calls}
                => Cardinality(OpenHandles(workspace'))
                        < Cardinality(OpenHandles(workspace))
           /\ (/\ phase' = "ready"
               /\ last'.id \in Ids(files.index)
               /\ files.handles[last'.id] # null)
                => files.handles[last'.id] \notin OpenHandles(workspace')]_vars

----------------------------------------------------------------------------
\* C31: the pipeline queries the engine (checkFile, parsed, tokens) only with
\* a handle the engine has open at that moment, whatever adds, changes,
\* renames, removes and selects came before, a rename whose openFile raised
\* after closeFile of the old handle included.
PipelineQueriesOpenHandles ==
    (memoRan /\ checkResult.calls # <<>>)
        => currentHandle(files) \in OpenHandles(workspace)

----------------------------------------------------------------------------
\* C32: remove of a file that is not the selected one leaves the selection
\* as it is, and any remove leaves the other records in the order they had,
\* with their contents and their handles (index loses the record removed
\* and nothing else, whenever the reducer returns).
RemoveKeepsTheRest ==
    [][last'.op = "remove" =>
        LET id == last'.action.id IN
        /\ files.selected # id => files'.selected = files.selected
        /\ FilterOut(files'.index, id) = FilterOut(files.index, id)
        /\ phase' = "ready" => files'.index = FilterOut(files.index, id)
        /\ \A k \in Ids(files.index) \ {id} :
                /\ k \in DOMAIN files'.contents
                /\ k \in DOMAIN files'.handles
                /\ files'.contents[k] = files.contents[k]
                /\ files'.handles[k] = files.handles[k]]_vars

\* The middle one of three files was removed while the last was selected.
C32Witness ==
    /\ last.op = "remove"
    /\ last.action.id = 1
    /\ phase = "ready"
    /\ Len(files.index) = 2
    /\ files.index[1].id = 0
    /\ files.index[2].id = 2
    /\ files.selected = 2
    /\ files.contents[0] # files.contents[2]

----------------------------------------------------------------------------
\* C33: selectFile and selectFileByName change the selection only: index,
\* contents, handles, nextId and revision are the same before and after.
SelectChangesSelectionOnly ==
    [][last'.op \in {"selectFile", "selectFileByName"} =>
        /\ files'.index = files.index
        /\ files'.contents = files.contents
        /\ files'.handles = files.handles
        /\ files'.nextId = files.nextId
        /\ files'.revision = files.revision
        /\ files'.selected =
                IF last'.op = "selectFile" THEN last'.action.id
                ELSE FindByName(files.index, last'.action.name)]_vars

\* selectFile has moved the selection to the first of two files, after the
\* second was added and edited.
C33Witness ==
    /\ last.op = "selectFile"
    /\ Len(files.index) = 2
    /\ files.selected = files.index[1].id
    /\ last.action.id = files.selected
    /\ files.revision = 3

----------------------------------------------------------------------------
\* C34: add records in the store the content it hands to the engine. A file
\* added with a handle has in the store the content the engine holds for
\* that handle; and after the one settings file of a session was added,
\* startup from serializeFiles of the session leaves the engine with the
\* options it has now and reports no error.
AddRecordsWhatEngineGot ==
    (last.op = "add" /\ last.dispatched /\ phase = "ready")
        => LET handle == files.handles[last.id]
               restored == Restored(serializeFiles(files))
           IN
           /\ handle \in OpenHandles(workspace)
                => workspace.open[handle].content = files.contents[last.id]
           /\ (handle = null /\ Cardinality(SettingsRecords(files)) = 1)
                => /\ restored.ws.options = workspace.options
                   /\ restored.error = NoError

----------------------------------------------------------------------------
\* The content of a settings file of the session is no JSON.
SettingsInvalid(state) ==
    \E position \in SettingsRecords(state) :
        ~JsonParses(state.contents[state.index[position].id])

\* C35: an error of the settings stays in the error sink as long as the
\* content of the settings file is invalid: a step that applies no settings
\* (such as a successful update of the content of another file) leaves it
\* there.
SettingsErrorStays ==
    [][(/\ error # NoError
        /\ Head(error) = OptionsError
        /\ SettingsInvalid(files)
        /\ SettingsInvalid(files')
        /\ "updateOptions" \notin {last'.calls[i] : i \in DOMAIN last'.calls})
        => error' = error]_vars

\* What the startup callback leaves for a snapshot, stated on the session, the
\* engine and the error sink.
StartedFrom(snapshot) ==
    LET entries == snapshot.files
        names == {entries[i][1] : i \in DOMAIN entries}
        records(name) == {i \in DOMAIN files.index : files.index[i].name = name}
        settings == {i \in DOMAIN entries : entries[i][1] = SETTINGS_FILE_NAME}
        text == IF settings = {} THEN DEFAULT_SETTINGS
                ELSE entries[CHOOSE i \in settings : TRUE][2]
    IN  /\ Len(files.index) = Len(entries)
        /\ \A i \in DOMAIN entries :
            /\ Cardinality(records(entries[i][1])) = 1
            /\ \A r \in records(entries[i][1]) :
                LET id == files.index[r].id
                    handle == files.handles[id]
                IN  /\ files.contents[id] = entries[i][2]
                    /\ IF entries[i][1] = SETTINGS_FILE_NAME
                       THEN handle = null
                       ELSE /\ handle \in OpenHandles(workspace)
                            /\ workspace.open[handle] =
                                   [path |-> entries[i][1],
                                    content |-> entries[i][2]]
                            /\ \A other \in DOMAIN files.handles :
                                   other # id => files.handles[other] # handle
        /\ OpenHandles(workspace) = Handles(files)
        /\ IF JsonParses(text) /\ ValidSettings(JsonParse(text))
           THEN workspace.options = JsonParse(text) /\ error = NoError
           ELSE /\ workspace.options = NewWorkspace.options
                /\ error # NoError
                /\ Head(error) = OptionsError
        /\ IF snapshot.current \in names
           THEN /\ files.selected # null
                /\ \E r \in records(snapshot.current) :
                       files.index[r].id = files.selected
           ELSE files.selected = null

\* C36: after startup the index holds one record per file of the snapshot
\* with that file's content, every file other than the settings file has a
\* handle of its own open in the engine under that name and content, the
\* settings file has no handle and its content has been handed to the engine
\* (the default settings when the snapshot has no settings file), and the
\* selected file is the one named by current, none when no file has that name.
StartupRestoresSnapshot ==
    last.op = "startup" =>
        /\ phase = "ready"
        /\ \E snapshot \in Snapshots : StartedFrom(snapshot)

\* The default snapshot restored: main.py is selected although knot.json was
\* added last, and the default settings are in the engine.
C36Witness ==
    /\ last.op = "startup"
    /\ StartedFrom(DefaultSnapshot)
    /\ Len(files.index) = 2
    /\ files.index[2].name = SETTINGS_FILE_NAME
    /\ files.selected = files.index[1].id
    /\ files.selected # files.index[2].id
    /\ workspace.options = JsonParse(DEFAULT_SETTINGS)

====
